---- MODULE Spec2Model ----
(***************************************************************************)
(* Model of the AIWorker routines of                                       *)
(* modules/AIWorker/backend/worker/functional.py: _call_train,             *)
(* _call_update_model, _call_average_model_states and _call_inference,     *)
(* run by concurrent workers against one project's tables (cnnstate,       *)
(* labelclass, prediction) and the project's row of aide_admin.project.    *)
(*                                                                         *)
(* Granularity: one action per stretch of a routine that ends with an      *)
(* access to the cnnstate or prediction table; the purely local work       *)
(* before it (metadata loading, the model's own function, result parsing)  *)
(* is part of the same action.  Every call to the database or to the       *)
(* model may raise: the action's input f names where the exception is      *)
(* thrown ("none" when nothing is thrown).                                 *)
(*                                                                         *)
(* Spec runs the four routines concurrently on an empty project.  InfSpec  *)
(* runs one inference call for every request and plug-in behaviour within  *)
(* the bounds, AvgSpec one averaging round over a table of partial states. *)
(* MsgSpec makes one call of the message function of a routine, DataSpec   *)
(* builds one BoundingBoxDataset (functional/datasets/bboxDataset.py).     *)
(***************************************************************************)
EXTENDS Integers, Sequences, FiniteSets

VARIABLES
    cnnstate,    \* rows of table <project>.cnnstate
    labelclass,  \* rows of table <project>.labelclass
    prediction,  \* rows of table <project>.prediction
    settings,    \* aide_admin.project.ai_model_library of the project (any library)
    nextId,      \* next primary key handed out for a cnnstate row
    budget,      \* the calls and exceptions this behaviour may still see
    numOps,      \* number of routine calls started so far
    task,        \* per worker: the routine it runs, its position and locals
    requests,    \* the inference requests the scheduler sends (imageIDs, batchSizeLimit)
    plugin       \* how the project's model and ranker plug-ins behave

vars == <<cnnstate, labelclass, prediction, settings, nextId, budget, numOps, task,
          requests, plugin>>

\* What no routine writes: the scheduler's requests and the installed plug-ins.
env == <<requests, plugin>>

(***************************************************************************)
(* Bounds of the model.                                                    *)
(***************************************************************************)
MaxOps == 3          \* routine calls started in a behaviour without exceptions
MaxClasses == 1      \* label classes the annotation front end creates
MaxFaults == 1       \* exceptions the database and the model throw in a behaviour
BatchSizeLimit == 1  \* batchSizeLimit the inference calls are given
MaxImages == 10      \* images of the project (rows of table image)
MaxLimit == 4        \* largest batchSizeLimit a request carries
MaxRows == 3         \* partial states in the table when an averaging round starts
MaxDone == 3         \* largest done, total, cumulatedTotal and offset of a progress call
MaxIndex == 2        \* largest predefined 'index' of a label class

Workers == {"w1", "w2"}
Libs == {"L1", "L2"}
ImageIDs == <<1, 2>>

\* Python's None for stateDict / stateDictID; blobs and ids are positive.
None == 0
\* SQL NULL in the model_library column.
NULL == "NULL"

\* The model class and the ranker are the project's plug-ins: the class of
\* library L1 has an update_model function and comes without a ranker, the
\* class of library L2 has no update_model and comes with a ranker that has a
\* rank function.
HasUpdateModel(lib) == lib = "L1"
HasRank(lib) == lib = "L2"

Running == {"t_commit", "u_run", "u_commit", "a_commit", "a_purge", "i_chunk"}

\* Column stats of cnnstate: NULL, or the JSON of a dict, here the set of its
\* <<key, value>> items.
NoStats == [none |-> TRUE, dict |-> {}]
Stats(items) == [none |-> FALSE, dict |-> items]

\* The ids of the rows of table <project>.image.
ProjectImages == 1 .. MaxImages

\* batchSizeLimit: an int, or None (isinstance(batchSizeLimit, int) is False).
IntLimit(n) == [isInt |-> TRUE, value |-> n]
NoLimit == [isInt |-> FALSE, value |-> 0]

\* _call_inference(project, imageIDs, ..., batchSizeLimit)
Request(ids, limit) == [imageIDs |-> ids, batchSizeLimit |-> limit]

\* What modelInstance.inference (and then rankerInstance.rank) hands to the
\* result parsing for the images of a chunk: the number of predictions per
\* image, whether a prediction has the key 'priority' ("absent": no key,
\* "None": key with value None, "value": a number), whether it has the key
\* 'confidence', and whether the image comes with a feature vector.
\* labels: for each prediction of an image the shape of its 'label' array
\* (<<rows, columns>> when it is two-dimensional; << >>: the predictions are
\* no masks); width, height: the keys 'width' and 'height' of a prediction
\* (None: no such key).
Ranked == [predictions |-> 1, priority |-> "value", confidence |-> TRUE, fVec |-> FALSE,
           labels |-> << >>, width |-> None, height |-> None]
Unranked == [predictions |-> 1, priority |-> "None", confidence |-> TRUE, fVec |-> TRUE,
             labels |-> << >>, width |-> None, height |-> None]
Bare == [predictions |-> 1, priority |-> "None", confidence |-> FALSE, fVec |-> FALSE,
         labels |-> << >>, width |-> None, height |-> None]
NoKey == [predictions |-> 1, priority |-> "absent", confidence |-> TRUE, fVec |-> FALSE,
          labels |-> << >>, width |-> None, height |-> None]
Empty == [predictions |-> 0, priority |-> "absent", confidence |-> FALSE, fVec |-> FALSE,
          labels |-> << >>, width |-> None, height |-> None]
\* Two masks per image, of 2 x 3 and of 3 x 2 pixels, each prediction with
\* width and height keys of its own.
Masks == [predictions |-> 2, priority |-> "value", confidence |-> TRUE, fVec |-> FALSE,
          labels |-> <<<<2, 3>>, <<3, 2>>>>, width |-> 9, height |-> 8]
\* One mask per image whose label is a flat list of 4 pixels.
FlatMask == [predictions |-> 1, priority |-> "value", confidence |-> TRUE, fVec |-> FALSE,
             labels |-> <<<<4>>>>, width |-> 9, height |-> 8]

\* A plug-in pair: the results it produces, and whether the model's inference
\* and the ranker's rank call updateStateFun with done and total ("images":
\* once with done = 0 and once with done = total = the images of the chunk).
\* predictionType: the prediction type of the project the plug-ins serve.
Plugin(out, rep, rrep) ==
    [outputs |-> out, reports |-> rep, rankReports |-> rrep,
     predictionType |-> "boundingBoxes"]
SegmentationPlugin(out) ==
    [Plugin(out, "silent", "silent") EXCEPT !.predictionType = "segmentationMasks"]

(***************************************************************************)
(* Worker-local state.                                                     *)
(***************************************************************************)
IdleTask ==
    [op |-> "none", pc |-> "idle", serial |-> 0, peers |-> {},
     modelLibrary |-> NULL, subset |-> FALSE, capable |-> FALSE,
     stateDict |-> None, stateDictID |-> None, queryResult |-> {},
     used |-> {}, result |-> None, idx |-> 0,
     events |-> << >>, error |-> "none", fault |-> "none",
     calls |-> 0, arg |-> {}, inserted |-> {}, purged |-> {},
     imageIDs |-> << >>, batchSizeLimit |-> NoLimit, chunks |-> << >>,
     data |-> [images |-> {}, annotations |-> {}],
     results |-> << >>, log |-> << >>, progress |-> << >>,
     stats_avg |-> NoStats, messages |-> << >>, predType |-> NULL,
     labelClasses |-> << >>, classdef |-> {}, classdef_inv |-> {}]

\* A worker picks up a routine call: fresh locals.  serial numbers the call,
\* peers are the calls of other workers that are running at that moment.
NewTask(w, o, lib, sub, cap) ==
    [IdleTask EXCEPT !.op = o, !.pc = "start", !.serial = numOps + 1,
                     !.peers = {task[v].serial : v \in {x \in Workers \ {w} : task[x].pc \in Running}},
                     !.modelLibrary = lib, !.subset = sub, !.capable = cap]

\* update_state(state=..., message=...): one event per stage name given.
Emit(t, stages) == [t EXCEPT !.events = @ \o stages]

\* raise Exception('... error during <tag> ...'); f is the call that threw.
Raise(t, tag, f) == [t EXCEPT !.pc = "raised", !.error = tag, !.fault = f]

\* return after update_state(state=states.SUCCESS, ...)
Return(t) == [Emit(t, <<"SUCCESS">>) EXCEPT !.pc = "done"]

Free(w) == task[w].pc \notin Running /\ numOps < budget.ops

(***************************************************************************)
(* The queries.                                                            *)
(***************************************************************************)
\* Mutant: the query does not filter on the library.
LatestStatesAnyLibrary(lib) ==
    {r \in cnnstate : \A q \in cnnstate : q.timecreated <= r.timecreated}

\* SELECT ... FROM cnnstate WHERE model_library = %s
\* ORDER BY timecreated DESC NULLS LAST LIMIT 1: the candidate rows (ties on
\* timecreated are broken by the database as it likes).
LatestStates(lib) ==
    {r \in cnnstate : /\ r.model_library = lib
                      /\ \A q \in cnnstate :
                            q.model_library = lib => q.timecreated <= r.timecreated}

\* __load_model_state: the possible <<stateDict, stateDictID>> results.
LoadModelState(lib) ==
    IF LatestStates(lib) = {}
    THEN {<<None, None>>}
    ELSE {<<r.statedict, r.id>> : r \in LatestStates(lib)}

\* SELECT COUNT(*) FROM cnnstate WHERE model_library = %s
StateCount(lib) == Cardinality({r \in cnnstate : r.model_library = lib})

\* Mutant: every label class counts as new once a state exists.
NewClassCountAll(lib) == IF StateCount(lib) > 0 THEN Cardinality(labelclass) ELSE 0

\* SELECT COUNT(*) FROM labelclass WHERE timeCreated >= (SELECT MAX(timeCreated)
\* FROM cnnstate WHERE model_library = %s); MAX over no row is NULL, and a
\* comparison with NULL selects nothing.
NewClassCount(lib) ==
    Cardinality({c \in labelclass :
        /\ StateCount(lib) > 0
        /\ \A r \in cnnstate : r.model_library = lib => c.timecreated >= r.timecreated})

\* result[0]['count'] > 0 and result[1]['count'] == 0
SkipUpdate(lib) == StateCount(lib) > 0 /\ NewClassCount(lib) = 0

\* SELECT ... FROM cnnstate WHERE partial IS TRUE AND model_library = %s
PartialStates(lib) == {r \in cnnstate : r.partial /\ r.model_library = lib}

\* Mutant: the DELETE without its WHERE clause.
PurgedRowsEvery(t) == cnnstate

\* Mutant: the purge removes only the states the fusion was built from.
PurgedRowsUsed(t) == {r \in cnnstate : r.partial /\ r.statedict \in t.used}

\* What DELETE FROM cnnstate WHERE partial IS TRUE removes in call t.
PurgedRows(t) == {r \in cnnstate : r.partial}

\* __get_ai_library_names: the lookup runs under try/finally: return, so an
\* exception in it is dropped and None is returned for the library.
GetAiLibraryNames(f) == IF f = "settings" THEN NULL ELSE settings

\* timeCreated DEFAULT NOW(): only the order of the readings matters.  Model
\* states are stamped 2, 4, 6, ...; a label class is stamped with the reading
\* of the last model state (the same instant) or with the odd reading after it.
Now == 2 * (nextId - 1)
StateStamp == Now + 2
Stamps == {Now, Now + 1}

\* A behaviour sees MaxOps calls and no exception, or one call less and up to
\* MaxFaults exceptions.
Budgets == {[ops |-> MaxOps, faults |-> 0], [ops |-> MaxOps - 1, faults |-> MaxFaults]}

\* The exception an action's input f injects ("none": nothing is thrown).
Fault(f) ==
    /\ f # "none" => budget.faults > 0
    /\ budget' = IF f = "none" THEN budget ELSE [budget EXCEPT !.faults = @ - 1]

StateRow(ts, sd, isPartial, lib) ==
    [id |-> nextId, timecreated |-> ts, partial |-> isPartial,
     model_library |-> lib, statedict |-> sd, stats |-> NoStats]

\* if isinstance(batchSizeLimit, int) and batchSizeLimit > 0:
\*     array_split(imageIDs, batchSizeLimit) else [imageIDs]
RECURSIVE array_split(_, _)
array_split(arr, size) ==
    IF Len(arr) <= size THEN <<arr>>
    ELSE <<SubSeq(arr, 1, size)>> \o array_split(SubSeq(arr, size + 1, Len(arr)), size)

\* Mutant: the list is never split.
ImageChunksWhole(ids, limit) == <<ids>>

\* Lines 439-442: imageID_chunks.
ImageChunks(ids, limit) ==
    IF limit.isInt /\ limit.value > 0 THEN array_split(ids, limit.value) ELSE <<ids>>

Range(s) == {s[i] : i \in DOMAIN s}

Max(a, b) == IF a >= b THEN a ELSE b
Min(a, b) == IF a <= b THEN a ELSE b

\* __load_metadata(project, dbConnector, imageIDs, loadAnnotations): the ids of
\* the images (and of the images whose annotations) it returns.  None for
\* imageIDs is the empty list.
LoadMetadata(ids, loadAnnotations) ==
    [images |-> IF Len(ids) > 0 THEN ProjectImages \cap Range(ids) ELSE {},
     annotations |-> IF loadAnnotations /\ Len(ids) > 0
                     THEN ProjectImages \cap Range(ids) ELSE {}]

\* Mutant: the offset is not added to the caller's total.
OnMessageUnshifted(done, total, hasCum, cumulatedTotal, offset) ==
    LET trueTotal == IF hasCum THEN Max(total, cumulatedTotal) ELSE total
        metaDone == Min(done + offset, trueTotal)
    IN  <<metaDone, Max(metaDone, trueTotal)>>

\* __on_message with numeric done and total: <<meta['done'], meta['total']>>.
\* hasCum: cumulatedTotal is a number.
OnMessage(done, total, hasCum, cumulatedTotal, offset) ==
    LET trueTotal == IF hasCum THEN Max(total + offset, cumulatedTotal) ELSE total + offset
        metaDone == Min(done + offset, trueTotal)
    IN  <<metaDone, Max(metaDone, trueTotal)>>

\* The <<done, total>> pairs a plug-in call reports for a chunk of n images.
Reports(style, n) == IF style = "images" THEN <<<<0, n>>, <<n, n>>>> ELSE << >>

\* The events the scheduler sees for the reports of one plug-in call.
RECURSIVE Reported(_, _, _)
Reported(reports, cumulatedTotal, offset) ==
    IF reports = << >> THEN << >>
    ELSE <<OnMessage(Head(reports)[1], Head(reports)[2], TRUE, cumulatedTotal, offset)>>
            \o Reported(Tail(reports), cumulatedTotal, offset)

(***************************************************************************)
(* Initial state: an empty project.                                        *)
(***************************************************************************)
Init ==
    /\ cnnstate = {}
    /\ labelclass = {}
    /\ prediction = {}
    /\ settings \in Libs
    /\ nextId = 1
    /\ numOps = 0
    /\ budget \in Budgets
    /\ task = [w \in Workers |-> IdleTask]
    /\ requests = {Request(ImageIDs, IntLimit(BatchSizeLimit))}
    /\ plugin = Plugin({Ranked}, "silent", "silent")

(***************************************************************************)
(* _call_train                                                             *)
(***************************************************************************)
\* Lines 268-306: load the model state, the metadata, call modelInstance.train.
TrainRun(w) ==
    /\ Free(w)
    /\ numOps' = numOps + 1
    /\ UNCHANGED <<cnnstate, labelclass, prediction, settings, nextId, env>>
    /\ \E lib \in Libs, sub \in BOOLEAN, f \in {"none", "state", "meta", "adapter"} :
         /\ Fault(f)
         /\ LET t0 == Emit(NewTask(w, "train", lib, sub, TRUE), <<"PREPARING">>) IN
            IF f = "state"
            THEN task' = [task EXCEPT ![w] = Raise(t0, "state loading", f)]
            ELSE \E ld \in LoadModelState(lib) :
                 LET t1 == Emit([t0 EXCEPT !.stateDict = ld[1], !.stateDictID = ld[2]],
                                <<"PREPARING">>)
                     t2 == [Emit(t1, <<"PREPARING">>) EXCEPT
                               !.calls = @ + 1, !.arg = {t1.stateDict},
                               !.data = LoadMetadata(ImageIDs, TRUE)]
                 IN  task' = [task EXCEPT ![w] =
                        IF f = "meta" THEN Raise(t1, "metadata loading", f)
                        ELSE IF f = "adapter" THEN Raise(t2, "training", f)
                        ELSE [t2 EXCEPT !.result = t2.serial, !.pc = "t_commit"]]

\* Mutant: the exception of the INSERT is dropped and SUCCESS is reported.
OnTrainCommitErrorSwallowed(t) == Return([t EXCEPT !.fault = "insert"])

\* Outcome of a failed INSERT in _call_train (lines 317-319).
OnTrainCommitError(t) == Raise(t, "data committing", "insert")

\* Mutant: the state is always inserted as non-partial.
TrainRowNonPartial(t, f) == StateRow(StateStamp, t.result, FALSE, GetAiLibraryNames(f))

\* The row _call_train inserts (lines 311-316).
TrainRow(t, f) == StateRow(StateStamp, t.result, t.subset, GetAiLibraryNames(f))

\* Lines 308-324: look up the library names, insert the state, report SUCCESS.
TrainCommit(w) ==
    /\ task[w].pc = "t_commit"
    /\ UNCHANGED <<labelclass, prediction, settings, numOps, env>>
    /\ \E f \in {"none", "settings", "insert"} :
         /\ Fault(f)
         /\ LET t1 == Emit(task[w], <<"FINALIZING">>) IN
            IF f = "insert"
            THEN /\ task' = [task EXCEPT ![w] = OnTrainCommitError(t1)]
                 /\ UNCHANGED <<cnnstate, nextId>>
            ELSE /\ cnnstate' = cnnstate \cup {TrainRow(t1, f)}
                 /\ nextId' = nextId + 1
                 /\ task' = [task EXCEPT ![w] =
                       Return([t1 EXCEPT !.inserted = {nextId},
                                  !.fault = f])]

(***************************************************************************)
(* _call_update_model                                                      *)
(***************************************************************************)
\* Mutant: the capability check is missing.
AfterUpdateCheckNoCap(t, cap, skip) ==
    IF skip THEN Return(t) ELSE [t EXCEPT !.pc = "u_run"]

\* Lines 174-201: where the routine goes after the capability check and the
\* new-class check.
AfterUpdateCheck(t, cap, skip) ==
    IF ~cap THEN Return(t)
    ELSE IF skip THEN Return(t)
    ELSE [t EXCEPT !.pc = "u_run"]

\* Lines 171-201: the capability check and the new-class check.  The count
\* query runs outside any try block: its exception leaves the routine as is.
UpdateCheck(w) ==
    /\ Free(w)
    /\ numOps' = numOps + 1
    /\ UNCHANGED <<cnnstate, labelclass, prediction, settings, nextId, env>>
    /\ \E lib \in Libs, f \in {"none", "query"} :
         /\ Fault(f)
         /\ ~HasUpdateModel(lib) => f = "none"
         /\ LET t0 == NewTask(w, "update", lib, FALSE, HasUpdateModel(lib)) IN
            task' = [task EXCEPT ![w] =
               IF f = "query" THEN Raise(t0, "untagged", f)
               ELSE AfterUpdateCheck(t0, t0.capable, SkipUpdate(lib))]

\* Line 216: data = __load_metadata(project, dbConnector, None, True)
UpdateMetadata == LoadMetadata(<< >>, TRUE)

\* Lines 203-227: load the model state and the metadata, call update_model.
UpdateRun(w) ==
    /\ task[w].pc = "u_run"
    /\ UNCHANGED <<cnnstate, labelclass, prediction, settings, nextId, numOps, env>>
    /\ \E f \in {"none", "state", "meta", "adapter"} :
         /\ Fault(f)
         /\ LET t0 == Emit(task[w], <<"PREPARING">>) IN
            IF f = "state"
            THEN task' = [task EXCEPT ![w] = Raise(t0, "state loading", f)]
            ELSE \E ld \in LoadModelState(t0.modelLibrary) :
                 LET t1 == Emit([t0 EXCEPT !.stateDict = ld[1], !.stateDictID = ld[2]],
                                <<"PREPARING">>)
                     t2 == [Emit(t1, <<"PREPARING">>) EXCEPT
                               !.calls = @ + 1, !.arg = {t1.stateDict},
                               !.data = UpdateMetadata]
                 IN  task' = [task EXCEPT ![w] =
                        IF f = "meta" THEN Raise(t1, "metadata loading", f)
                        ELSE IF f = "adapter" THEN Raise(t2, "model update", f)
                        ELSE [t2 EXCEPT !.result = t2.serial, !.pc = "u_commit"]]

\* Lines 230-244: look up the library names, insert the state as non-partial.
UpdateCommit(w) ==
    /\ task[w].pc = "u_commit"
    /\ UNCHANGED <<labelclass, prediction, settings, numOps, env>>
    /\ \E f \in {"none", "settings", "insert"} :
         /\ Fault(f)
         /\ LET t1 == Emit(task[w], <<"FINALIZING">>) IN
            IF f = "insert"
            THEN /\ task' = [task EXCEPT ![w] = Raise(t1, "data committing", f)]
                 /\ UNCHANGED <<cnnstate, nextId>>
            ELSE /\ cnnstate' = cnnstate \cup
                       {StateRow(StateStamp, t1.result, FALSE, GetAiLibraryNames(f))}
                 /\ nextId' = nextId + 1
                 /\ task' = [task EXCEPT ![w] =
                       Return([t1 EXCEPT !.inserted = {nextId},
                                  !.fault = f])]

(***************************************************************************)
(* _call_average_model_states                                              *)
(***************************************************************************)
\* Mutant: the check for an empty result is missing.
AfterPartialQueryNoCheck(t, rows) ==
    [Emit([t EXCEPT !.queryResult = rows], <<"PREPARING">>) EXCEPT
        !.pc = "fuse", !.calls = @ + 1, !.arg = {r.statedict : r \in rows}]

\* Lines 351-361: what the routine does with the rows the query returned.
AfterPartialQuery(t, rows) ==
    IF rows = {} THEN Return(t)
    ELSE [Emit([t EXCEPT !.queryResult = rows], <<"PREPARING">>) EXCEPT
             !.pc = "fuse", !.calls = @ + 1, !.arg = {r.statedict : r \in rows}]

\* The states the model's average_model_states builds its result from.
UsedChoices(states) == IF states = {} THEN {{}} ELSE (SUBSET states) \ {{}}

RECURSIVE Sum(_)
Sum(values) ==
    IF values = << >> THEN 0 ELSE Head(values) + Sum(Tail(values))

\* The rows in the order the query returned them (by id).
RECURSIVE InOrder(_)
InOrder(rows) ==
    IF rows = {} THEN << >>
    ELSE LET r == CHOOSE x \in rows : \A y \in rows : x.id <= y.id
         IN  <<r>> \o InOrder(rows \ {r})

\* np.nanmean of a non-empty list of numbers, as the fraction sum / n.
NanMean(values) == [sum |-> Sum(values), n |-> Len(values)]

\* Lines 367-374: stats_avg, the mean of every key over the dicts that have it.
StatsAvg(rows) ==
    LET dicts == SelectSeq([i \in 1 .. Cardinality(rows) |-> InOrder(rows)[i].stats],
                           LAMBDA st : ~st.none)
        keys == {item[1] : item \in UNION {dicts[i].dict : i \in DOMAIN dicts}}
        Has(d, key) == \E item \in d.dict : item[1] = key
        Value(d, key) == (CHOOSE item \in d.dict : item[1] = key)[2]
        With(key) == SelectSeq(dicts, LAMBDA d : Has(d, key))
        stats_avg == {<<key, NanMean([i \in DOMAIN With(key) |-> Value(With(key)[i], key)])>> :
                         key \in keys}
    IN  IF stats_avg = {} THEN NoStats ELSE Stats(stats_avg)

\* Lines 378-383: the library of queryResult[0]; without a row the lookup of
\* the project settings.
AvgLibrary(t) ==
    IF t.queryResult = {} THEN {settings} ELSE {r.model_library : r \in t.queryResult}

\* Lines 336-374: select the partial states of the library, call
\* average_model_states on them, average the statistics.  The model function
\* may build its result from any of the states it is handed (used).  Line 368
\* reads qr['stats'] from rows the connector built for a query that names the
\* column statistics: whether that read succeeds is the connector's matter,
\* and its KeyError is raised outside any try block.
AvgRun(w) ==
    /\ Free(w)
    /\ numOps' = numOps + 1
    /\ UNCHANGED <<cnnstate, labelclass, prediction, settings, nextId, env>>
    /\ \E lib \in Libs, f \in {"none", "state", "adapter", "stats"} :
         /\ Fault(f)
         /\ LET t0 == Emit(NewTask(w, "average", lib, FALSE, TRUE), <<"PREPARING">>)
                t1 == AfterPartialQuery(t0, PartialStates(lib))
            IN
            IF f = "state"
            THEN task' = [task EXCEPT ![w] = Raise(t0, "state loading", f)]
            ELSE IF t1.pc = "done"
            THEN f = "none" /\ task' = [task EXCEPT ![w] = t1]
            ELSE IF f = "adapter"
            THEN task' = [task EXCEPT ![w] = Raise(t1, "model state fusion", f)]
            ELSE \E u \in UsedChoices(t1.arg) :
                 LET t2 == [t1 EXCEPT !.used = u, !.result = t1.serial] IN
                 task' = [task EXCEPT ![w] =
                     IF f = "stats" THEN Raise(t2, "untagged", f)
                     ELSE [t2 EXCEPT !.stats_avg = StatsAvg(t1.queryResult),
                                     !.pc = "a_commit"]]

\* Mutant: the exception of the fused INSERT is dropped and the routine goes on.
OnAvgCommitErrorSwallowed(t) == [t EXCEPT !.pc = "a_purge", !.fault = "insert"]

\* Outcome of a failed INSERT of the averaged state (lines 390-392).
OnAvgCommitError(t) == Raise(t, "data committing", "insert")

\* Mutant: the averaged state is inserted as one more partial state.
AvgRowPartial(t, lib) ==
    [StateRow(StateStamp, t.result, TRUE, lib) EXCEPT !.stats = t.stats_avg]

\* Lines 384-389: the row of the averaged state.
AvgRow(t, lib) ==
    [StateRow(StateStamp, t.result, FALSE, lib) EXCEPT !.stats = t.stats_avg]

\* Lines 376-392: the averaged state is inserted as non-partial under the
\* library of queryResult[0].
AvgCommit(w) ==
    /\ task[w].pc = "a_commit"
    /\ UNCHANGED <<labelclass, prediction, settings, numOps, env>>
    /\ \E f \in {"none", "insert"} :
         /\ Fault(f)
         /\ LET t1 == Emit(task[w], <<"FINALIZING">>) IN
            IF f = "insert"
            THEN /\ task' = [task EXCEPT ![w] = OnAvgCommitError(t1)]
                 /\ UNCHANGED <<cnnstate, nextId>>
            ELSE \E lib \in AvgLibrary(t1) :
                 /\ cnnstate' = cnnstate \cup {AvgRow(t1, lib)}
                 /\ nextId' = nextId + 1
                 /\ task' = [task EXCEPT ![w] =
                       [t1 EXCEPT !.inserted = {nextId}, !.pc = "a_purge"]]

\* Lines 394-409: delete the partial states, report SUCCESS.
AvgPurge(w) ==
    /\ task[w].pc = "a_purge"
    /\ UNCHANGED <<labelclass, prediction, settings, nextId, numOps, env>>
    /\ \E f \in {"none", "delete"} :
         /\ Fault(f)
         /\ LET t1 == Emit(task[w], <<"FINALIZING">>) IN
            IF f = "delete"
            THEN /\ task' = [task EXCEPT ![w] = Raise(t1, "cache purging", f)]
                 /\ UNCHANGED cnnstate
            ELSE /\ cnnstate' = cnnstate \ PurgedRows(t1)
                 /\ task' = [task EXCEPT ![w] =
                       Return([t1 EXCEPT !.purged = {r.id : r \in PurgedRows(t1)}])]

(***************************************************************************)
(* _call_inference                                                         *)
(***************************************************************************)
\* Lines 418-442: the prediction type lookup (outside any try block), the
\* model state, the chunks.  capable: a ranker with a rank function is given.
InfLoad(w) ==
    /\ Free(w)
    /\ numOps' = numOps + 1
    /\ UNCHANGED <<cnnstate, labelclass, prediction, settings, nextId, env>>
    /\ \E lib \in Libs, rq \in requests, f \in {"none", "predtype", "state"} :
         /\ Fault(f)
         /\ LET t0 == [NewTask(w, "inference", lib, FALSE, HasRank(lib)) EXCEPT
                          !.imageIDs = rq.imageIDs, !.batchSizeLimit = rq.batchSizeLimit]
                t1 == Emit([t0 EXCEPT !.predType = plugin.predictionType], <<"PREPARING">>)
            IN
            IF f = "predtype"
            THEN task' = [task EXCEPT ![w] = Raise(t0, "untagged", f)]
            ELSE IF f = "state"
            THEN task' = [task EXCEPT ![w] = Raise(t1, "state loading", f)]
            ELSE \E ld \in LoadModelState(lib) :
                 task' = [task EXCEPT ![w] =
                     [t1 EXCEPT !.stateDict = ld[1], !.stateDictID = ld[2],
                                !.chunks = ImageChunks(rq.imageIDs, rq.batchSizeLimit),
                                !.pc = "i_chunk"]]

\* One more entry in the call's log: what was done, for which chunk, and the
\* number of model states committed in the project before it.
Log(t, what) == [t EXCEPT !.log = Append(@, <<what, t.idx + 1, nextId - 1>>)]

\* Mutant: the failed chunk is skipped and the loop goes on.
OnChunkErrorSkipped(t, tag, f) ==
    IF t.idx + 1 = Len(t.chunks)
    THEN Return([t EXCEPT !.idx = @ + 1, !.fault = f])
    ELSE [t EXCEPT !.idx = @ + 1, !.fault = f]

\* The except blocks of the loop body: raise Exception('... error during <tag>
\* (chunk ...)').
OnChunkError(t, tag, f) == Raise(t, tag, f)

\* Mutant: the insert is issued for every chunk.
InsertIssuedAlways(shape) == TRUE

\* Line 541: if len(values_pred)
InsertIssued(shape) == shape.predictions > 0

\* Line 557: if len(values_img)
UpsertIssued(shape) == shape.fVec

\* Lines 515-520: the value appended for field 'priority' ("KeyError": the
\* read prediction['priority'] of a prediction without that key).
StoredPriority(shape) ==
    IF shape.priority = "None" /\ shape.confidence THEN "confidence"
    ELSE IF shape.priority = "absent" THEN "KeyError"
    ELSE IF shape.priority = "None" THEN "None"
    ELSE "priority"

\* FieldNames_prediction: the columns of a prediction row of the type, next
\* to image and cnnstate.
FieldNames(predType) ==
    IF predType = "segmentationMasks"
    THEN {"segmentationmask", "width", "height", "priority"}
    ELSE {"label", "confidence", "x", "y", "width", "height", "priority"}

\* Lines 490-491: np.array(predictions[0]['label']) and its shape.
SegMaskShape(shape) == shape.labels[1]

\* Line 492: base64 of the raveled array, one byte per pixel: what is kept
\* of the array is the number of its pixels, in groups of 3 bytes.
SegMask(shape) == [pixels |-> SegMaskShape(shape)[1] * SegMaskShape(shape)[2],
                   base64 |-> 4 * ((SegMaskShape(shape)[1] * SegMaskShape(shape)[2] + 2) \div 3)]

\* Mutant: the dimensions are read from the prediction's own keys.
SegMaskDimensionsSupplied(shape) ==
    [width |-> shape.width, height |-> shape.height]

\* Lines 491-496: height, width = segMask.shape.
SegMaskDimensions(shape) ==
    [width |-> SegMaskShape(shape)[2], height |-> SegMaskShape(shape)[1]]

\* Lines 506-514: the value appended for field 'width' or 'height'.
StoredDimensions(predType, shape) ==
    IF predType = "segmentationMasks"
    THEN SegMaskDimensions(shape)
    ELSE [width |-> shape.width, height |-> shape.height]

\* Lines 485-530: the exception the parsing of a result throws, if any:
\* a label array that is not two-dimensional cannot be unpacked into
\* height and width, a prediction without the key 'priority' cannot be read.
ParseError(predType, shape) ==
    IF shape.predictions = 0 THEN "none"
    ELSE IF predType = "segmentationMasks" /\ Len(SegMaskShape(shape)) # 2 THEN "shape"
    ELSE IF StoredPriority(shape) = "KeyError" THEN "priority"
    ELSE "none"

\* Mutant: the rows carry the id of the library's latest state at insert time.
PredictionRowsLatest(t, batch, shape) ==
    {[image |-> i, n |-> n, task |-> t.serial, priority |-> StoredPriority(shape),
      cnnstate |-> (CHOOSE ld \in LoadModelState(t.modelLibrary) : TRUE)[2],
      segmentationmask |-> IF "segmentationmask" \in FieldNames(t.predType)
                           THEN SegMask(shape) ELSE [pixels |-> 0, base64 |-> 0],
      width |-> StoredDimensions(t.predType, shape).width,
      height |-> StoredDimensions(t.predType, shape).height] :
        i \in Range(batch), n \in 1 .. shape.predictions}

\* Lines 485-530: values_pred, one row per prediction of the result.
PredictionRows(t, batch, shape) ==
    {[image |-> i, n |-> n, task |-> t.serial, priority |-> StoredPriority(shape),
      cnnstate |-> t.stateDictID,
      segmentationmask |-> IF "segmentationmask" \in FieldNames(t.predType)
                           THEN SegMask(shape) ELSE [pixels |-> 0, base64 |-> 0],
      width |-> StoredDimensions(t.predType, shape).width,
      height |-> StoredDimensions(t.predType, shape).height] :
        i \in Range(batch), n \in 1 .. shape.predictions}

\* Mutant: the predictions the images of the rows already have are deleted
\* before the insert.
InsertReplacing(rows) ==
    {p \in prediction : p.image \notin {r.image : r \in rows}} \cup rows

\* Lines 548-554: INSERT INTO prediction ... VALUES values_pred, the table
\* after it.
Insert(rows) == prediction \cup rows

\* Lines 445-566, one pass of the loop: the message function of the chunk,
\* metadata, modelInstance.inference, the ranker, result parsing, the insert
\* of the chunk's predictions and the upsert of its feature vectors.  shape
\* is the result as it reaches the parsing.  Line 449 multiplies idx with
\* batchSizeLimit outside any try block: a TypeError when the limit is None.
InfChunk(w) ==
    /\ task[w].pc = "i_chunk"
    /\ UNCHANGED <<cnnstate, labelclass, settings, nextId, numOps, env>>
    /\ \E f \in {"none", "meta", "adapter", "rank", "parse", "insert", "upsert"},
          shape \in plugin.outputs :
         /\ Fault(f)
         /\ LET t == task[w]
                batch == t.chunks[t.idx + 1]
                total == Len(t.imageIDs)
                offset == t.idx * t.batchSizeLimit.value
                t1 == Log(Emit(t, <<"PREPARING">>), "meta")
                t2 == [Log(Emit(t1, <<"PREPARING">>), "inference") EXCEPT
                          !.data = LoadMetadata(batch, FALSE),
                          !.calls = @ + 1, !.arg = @ \cup {t1.stateDict},
                          !.progress = @ \o Reported(Reports(plugin.reports, Len(batch)),
                                                     total, offset)]
                t3 == IF t2.capable
                      THEN [Log(Emit(t2, <<"PREPARING">>), "rank") EXCEPT
                               !.progress = @ \o Reported(Reports(plugin.rankReports, Len(batch)),
                                                          total, offset)]
                      ELSE t2
                t4 == [Emit(t3, <<"FINALIZING">>) EXCEPT !.results = Append(@, shape)]
                rows == PredictionRows(t4, batch, shape)
                t5 == IF InsertIssued(shape) THEN Log(t4, "insert") ELSE t4
                t6 == IF UpsertIssued(shape) THEN Log(t5, "upsert") ELSE t5
                t7 == [t6 EXCEPT !.idx = @ + 1]
            IN
            /\ f = "rank" => t2.capable
            /\ f = "insert" => InsertIssued(shape)
            /\ f = "upsert" => UpsertIssued(shape)
            /\ f \in {"insert", "upsert"} => ParseError(t.predType, shape) = "none"
            /\ IF ~t.batchSizeLimit.isInt
               THEN /\ f = "none"
                    /\ UNCHANGED prediction
                    /\ task' = [task EXCEPT ![w] = Raise(t, "untagged", "offset")]
               ELSE IF f = "none" /\ ParseError(t.predType, shape) # "none"
               THEN /\ UNCHANGED prediction
                    /\ task' = [task EXCEPT ![w] =
                          OnChunkError(t4, "result parsing", ParseError(t.predType, shape))]
               ELSE IF f = "none"
               THEN /\ prediction' = IF InsertIssued(shape) THEN Insert(rows) ELSE prediction
                    /\ task' = [task EXCEPT ![w] =
                          IF t7.idx = Len(t7.chunks) THEN Return(t7) ELSE t7]
               ELSE IF f = "upsert"
               THEN /\ prediction' = IF InsertIssued(shape) THEN Insert(rows) ELSE prediction
                    /\ task' = [task EXCEPT ![w] = OnChunkError(t5, "data committing", f)]
               ELSE /\ UNCHANGED prediction
                    /\ task' = [task EXCEPT ![w] =
                          CASE f = "meta" -> OnChunkError(t1, "metadata loading", f)
                            [] f = "adapter" -> OnChunkError(t2, "inference", f)
                            [] f = "rank" -> OnChunkError(t3, "ranking", f)
                            [] f = "parse" -> OnChunkError(t4, "result parsing", f)
                            [] f = "insert" -> OnChunkError(t4, "data committing", f)]

(***************************************************************************)
(* The environment: the annotation front end creates label classes.        *)
(***************************************************************************)
AddLabelClass ==
    /\ Cardinality(labelclass) < MaxClasses
    /\ \E ts \in Stamps :
         /\ labelclass' = labelclass \cup
               {[id |-> Cardinality(labelclass) + 1, timecreated |-> ts]}
    /\ UNCHANGED <<cnnstate, prediction, settings, nextId, budget, numOps, task, env>>

Next ==
    \/ \E w \in Workers : TrainRun(w)
    \/ \E w \in Workers : TrainCommit(w)
    \/ \E w \in Workers : UpdateCheck(w)
    \/ \E w \in Workers : UpdateRun(w)
    \/ \E w \in Workers : UpdateCommit(w)
    \/ \E w \in Workers : AvgRun(w)
    \/ \E w \in Workers : AvgCommit(w)
    \/ \E w \in Workers : AvgPurge(w)
    \/ \E w \in Workers : InfLoad(w)
    \/ \E w \in Workers : InfChunk(w)
    \/ AddLabelClass

Spec == Init /\ [][Next]_vars

(***************************************************************************)
(* One inference call at a time, for every request and plug-in behaviour   *)
(* within the bounds.                                                      *)
(***************************************************************************)
Shapes == {Ranked, Unranked, Bare, NoKey, Empty}
MaskShapes == {Masks, FlatMask}

InfRequests ==
    {Request([i \in 1 .. n |-> i], lim) :
        n \in 1 .. MaxImages, lim \in {NoLimit} \cup {IntLimit(k) : k \in -1 .. MaxLimit}}

InfPlugins ==
    {Plugin({shape}, "silent", "silent") : shape \in Shapes}
        \cup {Plugin({Ranked}, "images", rrep) : rrep \in {"silent", "images"}}
        \cup {Plugin({Ranked, Empty}, "silent", "silent")}
        \cup {SegmentationPlugin({shape}) : shape \in MaskShapes}

InfInit ==
    /\ cnnstate = {}
    /\ labelclass = {}
    /\ prediction = {}
    /\ settings \in Libs
    /\ nextId = 1
    /\ numOps = 0
    /\ budget \in {[ops |-> 1, faults |-> n] : n \in {0, MaxFaults}}
    /\ task = [w \in Workers |-> IdleTask]
    /\ requests \in {{rq} : rq \in InfRequests}
    /\ plugin \in InfPlugins

InfNext ==
    \/ \E w \in Workers : InfLoad(w)
    \/ \E w \in Workers : InfChunk(w)

InfSpec == InfInit /\ [][InfNext]_vars

(***************************************************************************)
(* One averaging round over partial states that earlier train calls have   *)
(* committed, with and without statistics, under the library the project's *)
(* settings name now or under the one they named at that time.             *)
(***************************************************************************)
StatsChoices ==
    {NoStats, Stats({}), Stats({<<"loss", 10>>}), Stats({<<"loss", 20>>}),
     Stats({<<"acc", 10>>}), Stats({<<"loss", 10>>, <<"acc", 20>>})}

\* The table after n subset runs of train, the last of them under library
\* other and the ones before it under library lib.
PartialRows(n, lib, other, stats) ==
    {[id |-> i, timecreated |-> 2 * i, partial |-> TRUE,
      model_library |-> IF i < n THEN lib ELSE other,
      statedict |-> i, stats |-> stats[i]] : i \in 1 .. n}

AvgInit ==
    /\ settings \in Libs
    /\ \E n \in 1 .. MaxRows, lib, other \in Libs :
          /\ nextId = n + 1
          /\ numOps = n
          /\ cnnstate \in {PartialRows(n, lib, other, stats) : stats \in [1 .. n -> StatsChoices]}
    /\ labelclass = {}
    /\ prediction = {}
    /\ budget \in {[ops |-> numOps + 1, faults |-> k] : k \in {0, MaxFaults}}
    /\ task = [w \in Workers |-> IdleTask]
    /\ requests = {Request(ImageIDs, IntLimit(BatchSizeLimit))}
    /\ plugin = Plugin({Ranked}, "silent", "silent")

AvgNext ==
    \/ \E w \in Workers : AvgRun(w)
    \/ \E w \in Workers : AvgCommit(w)
    \/ \E w \in Workers : AvgPurge(w)

AvgSpec == AvgInit /\ [][AvgNext]_vars

(***************************************************************************)
(* One call of the message function of a routine, for every done, total,   *)
(* cumulatedTotal and offset within the bounds.                            *)
(***************************************************************************)
MsgInit ==
    /\ cnnstate = {}
    /\ labelclass = {}
    /\ prediction = {}
    /\ settings \in Libs
    /\ nextId = 1
    /\ numOps = 0
    /\ budget = [ops |-> 1, faults |-> 0]
    /\ task = [w \in Workers |-> IdleTask]
    /\ requests = {Request(ImageIDs, IntLimit(BatchSizeLimit))}
    /\ plugin = Plugin({Ranked}, "silent", "silent")

\* Lines 37-62: update_state(state, message, done, total) of a message
\* function built with cumulatedTotal and offset.  numeric: done and total
\* are both numbers (else the event carries neither).
OnMessageCall(w) ==
    /\ Free(w)
    /\ numOps' = numOps + 1
    /\ UNCHANGED <<cnnstate, labelclass, prediction, settings, nextId, budget, env>>
    /\ \E state \in {"PREPARING", "FINALIZING"}, numeric, hasCum \in BOOLEAN,
          done, total, cumulatedTotal, offset \in 0 .. MaxDone :
         /\ ~hasCum => cumulatedTotal = 0
         /\ ~numeric => done = 0 /\ total = 0
         /\ LET t == Emit(NewTask(w, "message", NULL, FALSE, FALSE), <<state>>)
                args == [done |-> done, total |-> total, hasCum |-> hasCum,
                         cumulatedTotal |-> cumulatedTotal, offset |-> offset]
            IN  task' = [task EXCEPT ![w] =
                   IF numeric
                   THEN [t EXCEPT !.messages = Append(@, args),
                                  !.progress = Append(@, OnMessage(done, total, hasCum,
                                                                   cumulatedTotal, offset))]
                   ELSE t]

MsgNext == \E w \in Workers : OnMessageCall(w)

MsgSpec == MsgInit /\ [][MsgNext]_vars

(***************************************************************************)
(* BoundingBoxDataset.__parse_data, the label classes: one dataset is      *)
(* built for every dict of label classes within the bounds.                *)
(***************************************************************************)
ClassKeys == {"a", "b", "c"}

\* A Python dict as the set of its <<key, value>> items.
Keys(dict) == {item[1] : item \in dict}
Get(dict, key) == (CHOOSE item \in dict : item[1] = key)[2]
\* dict[key] = value
Put(dict, key, value) == {item \in dict : item[1] # key} \cup {<<key, value>>}

\* data['labelClasses'] in the order of its keys: each label class with or
\* without the entry 'index'.  Predefined indices are pairwise distinct.
LabelClassDicts ==
    {lcs \in UNION {[1 .. n -> [key : ClassKeys, hasIndex : BOOLEAN, index : 0 .. MaxIndex]] :
                        n \in 1 .. Cardinality(ClassKeys)} :
        /\ \A i, j \in DOMAIN lcs : i # j => lcs[i].key # lcs[j].key
        /\ \A i, j \in DOMAIN lcs :
              (i # j /\ lcs[i].hasIndex /\ lcs[j].hasIndex) => lcs[i].index # lcs[j].index
        /\ \A i \in DOMAIN lcs : ~lcs[i].hasIndex => lcs[i].index = 0}

\* Lines 48-60: the loop over data['labelClasses'], from idx on.
RECURSIVE ParseClasses(_, _, _, _)
ParseClasses(lcs, idx, classdef, classdef_inv) ==
    IF lcs = << >>
    THEN [classdef |-> classdef, classdef_inv |-> classdef_inv]
    ELSE LET c == Head(lcs)
             index == IF ~c.hasIndex THEN idx ELSE c.index
         IN  ParseClasses(Tail(lcs), IF ~c.hasIndex THEN idx + 1 ELSE idx,
                          Put(classdef, c.key, index), Put(classdef_inv, index, c.key))

DataInit ==
    /\ cnnstate = {}
    /\ labelclass = {}
    /\ prediction = {}
    /\ settings \in Libs
    /\ nextId = 1
    /\ numOps = 0
    /\ budget = [ops |-> 1, faults |-> 0]
    /\ task = [w \in Workers |-> IdleTask]
    /\ requests = {Request(ImageIDs, IntLimit(BatchSizeLimit))}
    /\ plugin = Plugin({Ranked}, "silent", "silent")

\* Lines 36-60: BoundingBoxDataset(data, ...) up to the parsed label classes.
ParseData(w) ==
    /\ Free(w)
    /\ numOps' = numOps + 1
    /\ UNCHANGED <<cnnstate, labelclass, prediction, settings, nextId, budget, env>>
    /\ \E lcs \in LabelClassDicts :
         LET parsed == ParseClasses(lcs, 0, {}, {}) IN
         task' = [task EXCEPT ![w] =
             [NewTask(w, "dataset", NULL, FALSE, FALSE) EXCEPT
                 !.pc = "done", !.labelClasses = lcs,
                 !.classdef = parsed.classdef, !.classdef_inv = parsed.classdef_inv]]

DataNext == \E w \in Workers : ParseData(w)

DataSpec == DataInit /\ [][DataNext]_vars

(***************************************************************************)
(* Vocabulary of the properties.                                           *)
(***************************************************************************)
\* Worker w starts a call in this step / goes on with its call in this step.
Started(w) == task'[w].serial # task[w].serial
Continued(w) == task'[w] # task[w] /\ task'[w].serial = task[w].serial
\* No exception is thrown in this step.
Quiet == budget' = budget
Ids(rows) == {r.id : r \in rows}
Last(s) == s[Len(s)]
NonPartial(lib) == {r \in cnnstate : ~r.partial /\ r.model_library = lib}
\* The concatenation of the sequences of a sequence.
RECURSIVE Flatten(_)
Flatten(ss) == IF ss = << >> THEN << >> ELSE Head(ss) \o Flatten(Tail(ss))
\* An inference call that has computed its chunks.
Chunked(t) == t.op = "inference" /\ t.chunks # << >>
PositiveLimit(t) == t.batchSizeLimit.isInt /\ t.batchSizeLimit.value > 0
\* The chunks (by number) for which the call's log has an entry of this kind.
Logged(t, what) == SelectSeq(t.log, LAMBDA e : e[1] = what)
ChunkNumbers(entries) == [i \in DOMAIN entries |-> entries[i][2]]
\* The chunks (by number) whose result, as far as the call got, holds predictions.
WithPredictions(t) ==
    SelectSeq([k \in 1 .. Len(t.results) |-> k], LAMBDA k : t.results[k].predictions > 0)
\* The place of a call in a pass of the loop.
StepOrder(what) ==
    CASE what = "meta" -> 1 [] what = "inference" -> 2 [] what = "rank" -> 3
      [] what = "insert" -> 4 [] what = "upsert" -> 5
\* The exceptions thrown by the database or a plug-in.
Injected == {"predtype", "state", "meta", "adapter", "rank", "parse", "insert", "upsert"}

(***************************************************************************)
(* C1: averagePartialStates purges only after its own fused insert has     *)
(* succeeded: a step removes rows from cnnstate only if it is the purge     *)
(* step of a call whose non-partial averaged row is in the table, and a     *)
(* call that raised in state loading, fusion, the statistics or the fused   *)
(* commit has deleted nothing.                                              *)
(***************************************************************************)
C1_PurgeStep ==
    (cnnstate \ cnnstate' # {}) =>
        \E w \in Workers :
            /\ task[w].op = "average" /\ task[w].pc = "a_purge" /\ Continued(w)
            /\ \E r \in cnnstate : /\ r.id \in task[w].inserted
                                   /\ ~r.partial
                                   /\ r.statedict = task[w].result
                                   /\ r \in cnnstate'

C1_FailedKeeps ==
    \A w \in Workers :
        /\ task[w].purged # {} => task[w].op = "average" /\ task[w].inserted # {}
        /\ (task[w].op = "average" /\ task[w].pc = "raised"
                /\ task[w].fault \in {"state", "adapter", "stats", "insert"})
             => task[w].purged = {}

C1_CommitThenPurge == []C1_FailedKeeps /\ [][C1_PurgeStep]_vars

\* A call has inserted its averaged state and then purged partial rows.
C1_Witness ==
    \E w \in Workers :
        /\ task[w].op = "average" /\ task[w].pc = "done"
        /\ task[w].purged # {} /\ task[w].inserted # {}


(***************************************************************************)
(* C2: the state train, updateForNewClasses and inference load as the      *)
(* latest state of a library is a non-partial state: the row a call has     *)
(* loaded its stateDict from is never a partial row.                        *)
(***************************************************************************)
C2_LoadsCanonical ==
    \A w \in Workers :
        task[w].op \in {"train", "update", "inference"} =>
            \A r \in cnnstate : r.id = task[w].stateDictID => ~r.partial

(***************************************************************************)
(* C3: after a successful averagePartialStates that found N >= 1 partial   *)
(* rows, none of the N rows is left, however many of them the fusion        *)
(* function used, and the purge step leaves no partial row of the library.  *)
(***************************************************************************)
C3_FoundRowsGone ==
    \A w \in Workers :
        (task[w].op = "average" /\ task[w].pc = "done" /\ task[w].queryResult # {}) =>
            /\ Ids(task[w].queryResult) \cap Ids(cnnstate) = {}
            /\ task[w].queryResult \cap cnnstate = {}

C3_PurgeStep ==
    \A w \in Workers :
        (task[w].pc = "a_purge" /\ Continued(w) /\ task'[w].pc = "done") =>
            /\ {r \in cnnstate' : r.partial /\ r.model_library = task[w].modelLibrary} = {}
            /\ Ids(PartialStates(task[w].modelLibrary)) \subseteq task'[w].purged

C3_PurgesAll == []C3_FoundRowsGone /\ [][C3_PurgeStep]_vars

\* Two partial rows were found, the fusion function used one, both are gone.
C3_Witness ==
    \E w \in Workers :
        /\ task[w].op = "average" /\ task[w].pc = "done"
        /\ Cardinality(task[w].queryResult) = 2
        /\ Cardinality(task[w].used) = 1
        /\ Ids(task[w].queryResult) \subseteq task[w].purged
        /\ Ids(task[w].queryResult) \cap Ids(cnnstate) = {}

(***************************************************************************)
(* C4: averagePartialStates that finds no partial row of the library        *)
(* inserts nothing, deletes nothing, does not call average_model_states     *)
(* and ends with SUCCESS.                                                   *)
(***************************************************************************)
C4_NothingFound ==
    \A w \in Workers :
        (task[w].op = "average" /\ task[w].queryResult = {} /\ task[w].fault = "none") =>
            /\ task[w].pc = "done"
            /\ task[w].inserted = {} /\ task[w].purged = {}
            /\ task[w].calls = 0
            /\ task[w].events = <<"PREPARING", "SUCCESS">>

C4_StartStep ==
    \A w \in Workers :
        (Started(w) /\ task'[w].op = "average" /\ Quiet
            /\ PartialStates(task'[w].modelLibrary) = {}) =>
            /\ task'[w].pc = "done" /\ Last(task'[w].events) = "SUCCESS"
            /\ task'[w].calls = 0
            /\ cnnstate' = cnnstate

C4_EmptyIsNoOp == []C4_NothingFound /\ [][C4_StartStep]_vars

\* The no-op happened while the table held rows (none partial for the library).
C4_Witness ==
    \E w \in Workers :
        /\ task[w].op = "average" /\ task[w].pc = "done" /\ task[w].queryResult = {}
        /\ task[w].events = <<"PREPARING", "SUCCESS">>
        /\ cnnstate # {}

(***************************************************************************)
(* C5: two concurrent train calls with subset = True for the same library   *)
(* that both succeed leave two distinct partial rows of that library in the *)
(* table (which a later averagePartialStates of the library then finds).    *)
(* Stated for the moment no later call has started.                         *)
(***************************************************************************)
C5_TwoPartialRows ==
    \A w, v \in Workers :
        (/\ w # v
         /\ task[w].op = "train" /\ task[v].op = "train"
         /\ task[w].subset /\ task[v].subset
         /\ task[w].modelLibrary = task[v].modelLibrary
         /\ task[w].pc = "done" /\ task[v].pc = "done"
         /\ task[w].serial \in task[v].peers
         /\ numOps = task[v].serial) =>
            /\ task[w].inserted \cap task[v].inserted = {}
            /\ (task[w].inserted \cup task[v].inserted) \subseteq
                   Ids(PartialStates(task[w].modelLibrary))

(***************************************************************************)
(* C6: a successful train inserts exactly one new row, whose partial flag   *)
(* is the subset argument, and changes or deletes no existing row; the      *)
(* steps of train before it leave the table as it is.                       *)
(***************************************************************************)
C6_TrainStep ==
    \A w \in Workers :
        (task'[w].op = "train" /\ task'[w] # task[w]) =>
            IF task'[w].pc = "done"
            THEN \E r \in cnnstate' :
                    /\ r.id \notin Ids(cnnstate)
                    /\ cnnstate' = cnnstate \cup {r}
                    /\ r.partial = task[w].subset
                    /\ r.statedict = task[w].result
                    /\ task'[w].inserted = {r.id}
            ELSE cnnstate' = cnnstate

C6_TrainInsertsOne == [][C6_TrainStep]_vars

\* A subset run's partial row and a full run's non-partial row side by side.
C6_Witness ==
    \E w, v \in Workers :
        /\ task[w].op = "train" /\ task[w].pc = "done" /\ task[w].subset
        /\ task[v].op = "train" /\ task[v].pc = "done" /\ ~task[v].subset
        /\ \E r, q \in cnnstate :
              /\ task[w].inserted = {r.id} /\ r.partial
              /\ task[v].inserted = {q.id} /\ ~q.partial

(***************************************************************************)
(* C7: when loading the state, loading the metadata, the model's train or   *)
(* the insert of train throws, the routine raises an error that names that  *)
(* stage, has inserted no row, leaves the table as it was and has reported  *)
(* no SUCCESS.                                                              *)
(***************************************************************************)
TrainStageTag(f) ==
    CASE f = "state" -> "state loading"
      [] f = "meta" -> "metadata loading"
      [] f = "adapter" -> "training"
      [] f = "insert" -> "data committing"

C7_FailedTrain ==
    \A w \in Workers :
        (task[w].op = "train" /\ task[w].fault \in {"state", "meta", "adapter", "insert"}) =>
            /\ task[w].pc = "raised"
            /\ task[w].error = TrainStageTag(task[w].fault)
            /\ task[w].inserted = {}
            /\ "SUCCESS" \notin Range(task[w].events)

C7_RaiseStep ==
    \A w \in Workers :
        (task'[w].op = "train" /\ task'[w] # task[w] /\ task'[w].pc = "raised") =>
            /\ cnnstate' = cnnstate
            /\ task'[w].fault \in {"state", "meta", "adapter", "insert"}

C7_TrainFailureAborts == []C7_FailedTrain /\ [][C7_RaiseStep]_vars

\* The insert of a train call has thrown while the table held a state.
C7_Witness ==
    \E w \in Workers :
        /\ task[w].op = "train" /\ task[w].pc = "raised"
        /\ task[w].fault = "insert" /\ task[w].error = "data committing"
        /\ task[w].events = <<"PREPARING", "PREPARING", "PREPARING", "FINALIZING">>
        /\ cnnstate # {}

(***************************************************************************)
(* C8: train on a library without a state does not fail in state loading:   *)
(* the model's train is called once with stateDict = None, its result is    *)
(* inserted (non-partial unless the run is a subset run) and the last event *)
(* is SUCCESS.                                                              *)
(***************************************************************************)
C8_NoStateTrain ==
    \A w \in Workers :
        task[w].op = "train" =>
            /\ (task[w].pc = "raised" /\ task[w].error = "state loading")
                  => task[w].fault = "state"
            /\ (task[w].pc \in {"t_commit", "done"} /\ task[w].stateDictID = None) =>
                  /\ task[w].stateDict = None
                  /\ task[w].calls = 1 /\ task[w].arg = {None}
            /\ (task[w].pc = "done" /\ task[w].stateDictID = None) =>
                  /\ Cardinality(task[w].inserted) = 1
                  /\ Last(task[w].events) = "SUCCESS"
                  /\ \A r \in cnnstate : r.id \in task[w].inserted =>
                        r.partial = task[w].subset /\ r.statedict = task[w].result

C8_StartStep ==
    \A w \in Workers :
        (Started(w) /\ task'[w].op = "train" /\ Quiet
            /\ StateCount(task'[w].modelLibrary) = 0) =>
            /\ task'[w].pc = "t_commit"
            /\ task'[w].stateDict = None /\ task'[w].stateDictID = None
            /\ task'[w].calls = 1 /\ task'[w].arg = {None}

C8_TrainFromScratch == []C8_NoStateTrain /\ [][C8_StartStep]_vars

\* A full run on a library without a state has committed a non-partial row,
\* while the table held a state of another library.
C8_Witness ==
    \E w \in Workers :
        /\ task[w].op = "train" /\ task[w].pc = "done" /\ ~task[w].subset
        /\ task[w].stateDictID = None /\ task[w].arg = {None}
        /\ Last(task[w].events) = "SUCCESS"
        /\ \E r \in cnnstate : task[w].inserted = {r.id} /\ ~r.partial
        /\ \E q \in cnnstate : q.id \notin task[w].inserted

(***************************************************************************)
(* C9: updateForNewClasses does not call update_model and commits nothing,  *)
(* and reports SUCCESS, whenever no label class is newer than the library's *)
(* latest non-partial state.                                                *)
(***************************************************************************)
\* The fast path was taken in this step by a model that has update_model.
FastPath(w) ==
    /\ task'[w].pc = "done" /\ task'[w].events = <<"SUCCESS">>
    /\ task'[w].calls = 0 /\ task'[w].inserted = {}
    /\ cnnstate' = cnnstate

UpdateStarts(w) == Started(w) /\ task'[w].op = "update" /\ task'[w].capable /\ Quiet

\* As claimed: no label class created strictly after the latest non-partial state.
C9_StrictStep ==
    \A w \in Workers :
        (/\ UpdateStarts(w)
         /\ NonPartial(task'[w].modelLibrary) # {}
         /\ \A c \in labelclass : \E r \in NonPartial(task'[w].modelLibrary) :
                ~(c.timecreated > r.timecreated)) => FastPath(w)

C9_StrictlyAfter == [][C9_StrictStep]_vars

\* As amended: no label class created at or after the latest non-partial state.
C9_AtOrAfterStep ==
    \A w \in Workers :
        (/\ UpdateStarts(w)
         /\ NonPartial(task'[w].modelLibrary) # {}
         /\ \A c \in labelclass : \E r \in NonPartial(task'[w].modelLibrary) :
                c.timecreated < r.timecreated) => FastPath(w)

C9_AtOrAfter == [][C9_AtOrAfterStep]_vars

\* The fast path was taken with an older label class and a newer partial row.
C9_Witness ==
    \E w \in Workers :
        /\ task[w].op = "update" /\ task[w].capable /\ task[w].pc = "done"
        /\ task[w].events = <<"SUCCESS">> /\ task[w].calls = 0
        /\ numOps = task[w].serial
        /\ labelclass # {}
        /\ \E r \in NonPartial(task[w].modelLibrary) :
              /\ \A c \in labelclass : c.timecreated < r.timecreated
              /\ \E q \in PartialStates(task[w].modelLibrary) : q.timecreated > r.timecreated

(***************************************************************************)
(* C10: with a model that has no update_model, updateForNewClasses reports  *)
(* SUCCESS, loads no state and no metadata, commits nothing and leaves the  *)
(* table as it is, whatever label classes exist.                            *)
(***************************************************************************)
C10_NoCapability ==
    \A w \in Workers :
        (task[w].op = "update" /\ ~task[w].capable) =>
            /\ task[w].pc = "done"
            /\ task[w].events = <<"SUCCESS">>
            /\ task[w].stateDictID = None /\ task[w].stateDict = None
            /\ task[w].calls = 0 /\ task[w].inserted = {}

C10_StartStep ==
    \A w \in Workers :
        (Started(w) /\ task'[w].op = "update" /\ ~HasUpdateModel(task'[w].modelLibrary)) =>
            /\ task'[w].pc = "done"
            /\ cnnstate' = cnnstate /\ prediction' = prediction /\ labelclass' = labelclass

C10_NoUpdateModel == []C10_NoCapability /\ [][C10_StartStep]_vars

\* The no-op happened with a label class newer than every state of the library.
C10_Witness ==
    \E w \in Workers :
        /\ task[w].op = "update" /\ ~task[w].capable /\ task[w].pc = "done"
        /\ task[w].events = <<"SUCCESS">>
        /\ numOps = task[w].serial
        /\ StateCount(task[w].modelLibrary) > 0
        /\ NewClassCount(task[w].modelLibrary) > 0

(***************************************************************************)
(* C11: when updateForNewClasses goes past its fast paths, the data handed  *)
(* to update_model holds every image of the project with its annotations:   *)
(* loading the metadata without image ids returns all images.               *)
(***************************************************************************)
C11_UpdateSeesAllImages ==
    \A w \in Workers :
        (task[w].op = "update" /\ task[w].calls > 0) =>
            /\ task[w].data.images = ProjectImages
            /\ task[w].data.annotations = ProjectImages

(***************************************************************************)
(* C12: for a non-empty image-id list and a positive batchSizeLimit the     *)
(* chunks of an inference call partition the list: their concatenation is   *)
(* the list, no id is in two chunks, no chunk is longer than the limit and  *)
(* every chunk but the last has exactly the limit's length.                 *)
(***************************************************************************)
C12_ChunksPartition ==
    \A w \in Workers :
        (Chunked(task[w]) /\ PositiveLimit(task[w]) /\ Len(task[w].imageIDs) > 0) =>
            LET chunks == task[w].chunks
                limit == task[w].batchSizeLimit.value
            IN  /\ Flatten(chunks) = task[w].imageIDs
                /\ \A i, j \in DOMAIN chunks :
                      i # j => Range(chunks[i]) \cap Range(chunks[j]) = {}
                /\ \A i \in DOMAIN chunks :
                      /\ Len(chunks[i]) <= limit
                      /\ i < Len(chunks) => Len(chunks[i]) = limit

\* Ten ids with limit 4: chunks of 4, 4 and 2 ids.
C12_Witness ==
    \E w \in Workers :
        /\ Chunked(task[w]) /\ task[w].batchSizeLimit = IntLimit(4)
        /\ Len(task[w].imageIDs) = 10
        /\ [i \in DOMAIN task[w].chunks |-> Len(task[w].chunks[i])] = <<4, 4, 2>>

(***************************************************************************)
(* C13: with a batchSizeLimit that is zero, negative or None the whole      *)
(* image-id list is the one chunk of the call, and the call runs like any   *)
(* one-chunk request: unless the database or a plug-in throws it does not   *)
(* raise, and it ends with one metadata load, one inference call and        *)
(* SUCCESS.                                                                 *)
(***************************************************************************)
C13_WholeSetOneChunk ==
    \A w \in Workers :
        (Chunked(task[w]) /\ ~PositiveLimit(task[w])) =>
            /\ task[w].chunks = <<task[w].imageIDs>>
            /\ task[w].pc = "raised" => task[w].fault \in Injected \cup {"priority"}
            /\ task[w].pc = "done" =>
                  /\ Len(Logged(task[w], "meta")) = 1
                  /\ task[w].calls = 1
                  /\ Last(task[w].events) = "SUCCESS"

(***************************************************************************)
(* C14: inference processes the chunks one after the other in input order:  *)
(* nothing of chunk N+1 is started before the writes of chunk N are done.   *)
(* As claimed, every chunk has its prediction insert (10 images with limit  *)
(* 4: exactly 3 inserts); as amended, every chunk whose result holds a      *)
(* prediction has exactly one, the others have none.                        *)
(***************************************************************************)
\* As claimed: a successful call has issued one insert per chunk, in order.
C14_OneInsertPerChunk ==
    \A w \in Workers :
        (Chunked(task[w]) /\ PositiveLimit(task[w]) /\ task[w].pc = "done") =>
            ChunkNumbers(Logged(task[w], "insert")) = [k \in DOMAIN task[w].chunks |-> k]

\* The calls of a pass come in the order of the loop body, pass after pass,
\* and the inserts are those of the chunks with predictions.
C14_LogInOrder ==
    \A w \in Workers :
        Chunked(task[w]) =>
            LET t == task[w] IN
            /\ \A i, j \in DOMAIN t.log :
                  i < j => \/ t.log[i][2] < t.log[j][2]
                           \/ /\ t.log[i][2] = t.log[j][2]
                              /\ StepOrder(t.log[i][1]) < StepOrder(t.log[j][1])
            /\ ChunkNumbers(Logged(t, "meta")) = [k \in 1 .. Len(Logged(t, "meta")) |-> k]
            /\ t.pc # "raised" =>
                  /\ ChunkNumbers(Logged(t, "insert")) = WithPredictions(t)
                  /\ Len(t.results) = t.idx
            /\ t.pc = "done" => t.idx = Len(t.chunks)

\* When a pass starts, the predictions of every earlier chunk are in the table.
C14_PassStep ==
    \A w \in Workers :
        (task[w].pc = "i_chunk" /\ Continued(w)) =>
            \A k \in 1 .. task[w].idx :
                task[w].results[k].predictions > 0 =>
                    \A i \in Range(task[w].chunks[k]) :
                        \E p \in prediction : p.image = i /\ p.task = task[w].serial

C14_Sequential == []C14_LogInOrder /\ [][C14_PassStep]_vars

\* Ten images with limit 4, every chunk with predictions: inserts for the
\* chunks of 4, 4 and 2 images, in that order.
C14_Witness ==
    \E w \in Workers :
        /\ Chunked(task[w]) /\ task[w].pc = "done"
        /\ task[w].batchSizeLimit = IntLimit(4) /\ Len(task[w].imageIDs) = 10
        /\ ChunkNumbers(Logged(task[w], "insert")) = <<1, 2, 3>>
        /\ [k \in 1 .. 3 |-> Len(task[w].chunks[k])] = <<4, 4, 2>>
        /\ Cardinality({p \in prediction : p.task = task[w].serial}) = 10

(***************************************************************************)
(* C15: when chunk k of an inference call fails (metadata loading, the      *)
(* inference call, ranking, result parsing or the commit), the predictions  *)
(* committed for the chunks 1..k-1 stay in the table as they are, no chunk  *)
(* after k is processed, and the call raises without reporting SUCCESS.     *)
(***************************************************************************)
C15_FailedChunk ==
    \A w \in Workers :
        Chunked(task[w]) =>
            LET t == task[w] IN
            /\ t.fault # "none" => t.pc = "raised"
            /\ t.pc = "raised" =>
                  /\ "SUCCESS" \notin Range(t.events)
                  /\ t.error # "none"
                  /\ \A i \in DOMAIN t.log : t.log[i][2] <= t.idx + 1
                  /\ Len(t.results) <= t.idx + 1
                  /\ \A k \in 1 .. t.idx :
                        PredictionRows(t, t.chunks[k], t.results[k]) \subseteq prediction

C15_FailStep ==
    /\ prediction \subseteq prediction'
    /\ \A w \in Workers :
          /\ (Chunked(task[w]) /\ task[w].pc = "raised") => task'[w] = task[w]
          /\ (Chunked(task[w]) /\ Continued(w) /\ task'[w].pc = "raised") =>
                /\ task'[w].idx = task[w].idx
                /\ \A p \in prediction' \ prediction :
                      p.task = task[w].serial /\ p.image \in Range(task[w].chunks[task[w].idx + 1])

C15_EarlierChunksStay == []C15_FailedChunk /\ [][C15_FailStep]_vars

\* The insert of the third chunk has thrown: the rows of the first two are there.
C15_Witness ==
    \E w \in Workers :
        /\ Chunked(task[w]) /\ task[w].pc = "raised"
        /\ task[w].fault = "insert" /\ task[w].error = "data committing"
        /\ task[w].idx = 2 /\ Len(task[w].chunks) > 3
        /\ {p.image : p \in prediction} = Range(task[w].chunks[1]) \cup Range(task[w].chunks[2])

(***************************************************************************)
(* C16: every prediction row an inference call inserts, in every chunk,     *)
(* carries the id of the model state the call loaded at its start, and that *)
(* state is the one passed to the model for every chunk; a state another    *)
(* worker commits while the call runs changes neither.                      *)
(***************************************************************************)
C16_RowsCarryLoaded ==
    \A w \in Workers :
        Chunked(task[w]) =>
            /\ \A p \in prediction :
                  p.task = task[w].serial => p.cnnstate = task[w].stateDictID
            /\ task[w].calls > 0 => task[w].arg = {task[w].stateDict}

C16_PassStep ==
    \A w \in Workers :
        (Chunked(task[w]) /\ Continued(w)) =>
            /\ task'[w].stateDictID = task[w].stateDictID
            /\ task'[w].stateDict = task[w].stateDict
            /\ \A p \in prediction' \ prediction :
                  p.cnnstate = task[w].stateDictID /\ p.task = task[w].serial

C16_StateOfTheCall == []C16_RowsCarryLoaded /\ [][C16_PassStep]_vars

\* A state of the call's library was committed between the first and the
\* second pass of a call: the rows of both chunks carry the id loaded before.
C16_Witness ==
    \E w \in Workers :
        /\ Chunked(task[w]) /\ task[w].pc = "done" /\ Len(task[w].chunks) = 2
        /\ ChunkNumbers(Logged(task[w], "insert")) = <<1, 2>>
        /\ \E r \in LatestStates(task[w].modelLibrary) :
              /\ r.id # task[w].stateDictID
              /\ r.id > Logged(task[w], "insert")[1][3]
              /\ r.id <= Logged(task[w], "insert")[2][3]
        /\ \A i \in Range(task[w].imageIDs) :
              \E p \in prediction :
                  p.image = i /\ p.task = task[w].serial /\ p.cnnstate = task[w].stateDictID

(***************************************************************************)
(* C17: a prediction whose priority is unset after the ranking step (no     *)
(* ranker, a ranker without rank, or a ranker that leaves it unset) and     *)
(* that has a confidence is stored with its confidence as priority; an      *)
(* unset priority never makes the chunk fail.                               *)
(***************************************************************************)
C17_PriorityDefaults ==
    \A w \in Workers :
        Chunked(task[w]) =>
            LET t == task[w] IN
            /\ t.fault # "priority"
            /\ \A k \in 1 .. t.idx :
                  (/\ t.results[k].predictions > 0
                   /\ t.results[k].priority # "value"
                   /\ t.results[k].confidence) =>
                      \A i \in Range(t.chunks[k]) :
                          \E p \in prediction :
                              /\ p.image = i /\ p.task = t.serial
                              /\ p.priority = "confidence"

(***************************************************************************)
(* C18: for every stats key that at least one contributing partial row has, *)
(* the stats committed with the fused state hold the arithmetic mean of the *)
(* key over exactly the rows that have it (10, missing, 20 gives 15): an    *)
(* averaging call in which neither the database nor the model throws        *)
(* commits the fused state with these means.                                *)
(***************************************************************************)
\* The mean of key over the rows whose stats have it, as the fraction sum / n.
MeanOverRowsWith(rows, key) ==
    LET with == {r \in rows : \E item \in r.stats.dict : item[1] = key}
        Value(r) == (CHOOSE item \in r.stats.dict : item[1] = key)[2]
    IN  [sum |-> Sum([i \in 1 .. Cardinality(with) |-> Value(InOrder(with)[i])]),
         n |-> Cardinality(with)]

C18_StatsAveraged ==
    \A w \in Workers :
        (/\ task[w].op = "average"
         /\ \E r \in task[w].queryResult : r.stats.dict # {}
         /\ task[w].fault \notin {"state", "adapter", "insert", "delete"}) =>
            LET t == task[w]
                keys == {item[1] : item \in UNION {r.stats.dict : r \in t.queryResult}}
            IN  /\ t.pc # "raised"
                /\ t.pc \in {"a_purge", "done"} =>
                      \E r \in cnnstate :
                          /\ t.inserted = {r.id}
                          /\ {item[1] : item \in r.stats.dict} = keys
                          /\ \A item \in r.stats.dict :
                                item[2] = MeanOverRowsWith(t.queryResult, item[1])

(***************************************************************************)
(* C19: a successful averagePartialStates(library) over N >= 1 partial rows *)
(* commits exactly one fused state, non-partial and under the library of    *)
(* the contributing rows, so that loadLatest(library) returns the fused     *)
(* state as long as no later state is committed.                            *)
(***************************************************************************)
\* The fused row of call t is in the table, as committed.
FusedRow(t, r) ==
    /\ t.inserted = {r.id}
    /\ ~r.partial
    /\ r.statedict = t.result
    /\ \A q \in t.queryResult : r.model_library = q.model_library
    /\ r.model_library = t.modelLibrary

C19_Fused ==
    \A w \in Workers :
        (task[w].op = "average" /\ task[w].pc = "done" /\ task[w].queryResult # {}) =>
            \E r \in cnnstate :
                /\ FusedRow(task[w], r)
                /\ (\A q \in cnnstate : q.id <= r.id) =>
                      LoadModelState(task[w].modelLibrary) = {<<task[w].result, r.id>>}

C19_RoundStep ==
    \A w \in Workers :
        (task[w].op = "average" /\ Continued(w) /\ Quiet) =>
            /\ task[w].pc = "a_commit" =>
                  \E r \in cnnstate' :
                      /\ r.id \notin Ids(cnnstate) /\ cnnstate' = cnnstate \cup {r}
                      /\ FusedRow(task'[w], r)
            /\ task[w].pc = "a_purge" =>
                  /\ cnnstate' \subseteq cnnstate
                  /\ \E r \in cnnstate' : FusedRow(task'[w], r)

C20_DoneMonotone ==
    \A w \in Workers :
        \A i \in DOMAIN task[w].progress :
            /\ task[w].progress[i][1] <= task[w].progress[i][2]
            /\ i > 1 => task[w].progress[i - 1][1] <= task[w].progress[i][1]

(***************************************************************************)
(* C21: for a progress call with numeric done and total, the total the      *)
(* scheduler gets is the maximum of the total of the call and the           *)
(* cumulated total, and the done it gets is the call's done plus the        *)
(* offset, clamped to at most that total.  As claimed the total of the call *)
(* enters as it is; as amended it enters shifted by the offset, like done.  *)
(***************************************************************************)
\* The answer to the i-th numeric call of t when its total enters as local.
ReportedAs(t, i, local) ==
    LET a == t.messages[i]
        top == IF a.hasCum THEN Max(local, a.cumulatedTotal) ELSE local
    IN  /\ t.progress[i][2] = top
        /\ t.progress[i][1] = Min(a.done + a.offset, top)

C21_TotalUnshifted ==
    \A w \in Workers :
        \A i \in DOMAIN task[w].messages :
            ReportedAs(task[w], i, task[w].messages[i].total)

C21_TotalShifted ==
    \A w \in Workers :
        /\ Len(task[w].progress) = Len(task[w].messages)
        /\ \A i \in DOMAIN task[w].messages :
              ReportedAs(task[w], i, task[w].messages[i].total + task[w].messages[i].offset)

\* The second chunk of a request of 3 images in chunks of 2 reports 2 of 2:
\* the scheduler gets done 3 (clamped from 4) of total 4.
C21_Witness ==
    \E w \in Workers :
        /\ task[w].messages = <<[done |-> 2, total |-> 2, hasCum |-> TRUE,
                                 cumulatedTotal |-> 3, offset |-> 2]>>
        /\ task[w].progress = <<<<4, 4>>>>

(***************************************************************************)
(* C22: within one operation the stage never goes backward: after a         *)
(* FINALIZING event no PREPARING event follows, for an inference of two or  *)
(* more chunks too, and the terminal event is the last event.               *)
(***************************************************************************)
C22_StagesForward ==
    \A w \in Workers :
        \A i, j \in DOMAIN task[w].events :
            i < j => /\ task[w].events[i] # "SUCCESS"
                     /\ task[w].events[i] = "FINALIZING" => task[w].events[j] # "PREPARING"

(***************************************************************************)
(* C23: no operation modifies or deletes a non-partial state.  Every        *)
(* non-partial row of the table is in the table after every step, with the  *)
(* same content, flag and library, and no other row takes its id.           *)
(***************************************************************************)
C23_Step ==
    \A r \in cnnstate :
        ~r.partial => /\ r \in cnnstate'
                      /\ \A q \in cnnstate' : q.id = r.id => q = r

C23_NonPartialKept == [][C23_Step]_vars

\* An averaging call has purged a partial state that was committed after a
\* non-partial state, and the non-partial state is still in the table.
C23_Witness ==
    \E w \in Workers :
        /\ task[w].op = "average" /\ task[w].pc = "done"
        /\ \E r \in cnnstate : \E id \in task[w].purged :
              ~r.partial /\ r.id < id

(***************************************************************************)
(* C24: inference never deletes or overwrites a committed prediction.  A    *)
(* prediction row of the table is in the table, unchanged, after every      *)
(* step, also when inference runs again on images that have predictions.    *)
(***************************************************************************)
C24_Step == prediction \subseteq prediction'

C24_PredictionsKept == [][C24_Step]_vars

\* An image has predictions of two inference calls.
C24_Witness ==
    \E p, q \in prediction : p.image = q.image /\ p.task < q.task

(***************************************************************************)
(* C26: for the segmentation-mask prediction type the width and height of   *)
(* every inserted row are the number of columns and of rows of the label    *)
(* array that is encoded into the row, whatever width and height keys the   *)
(* prediction carries.                                                      *)
(***************************************************************************)
\* The rows task t has inserted for chunk k.
RowsOfChunk(t, k) ==
    {r \in prediction : r.task = t.serial /\ r.image \in Range(t.chunks[k])}

C26_MaskDimensions ==
    \A w \in Workers :
        (Chunked(task[w]) /\ task[w].predType = "segmentationMasks") =>
            \A k \in 1 .. Len(task[w].results) :
                \A r \in RowsOfChunk(task[w], k) :
                    LET encoded == task[w].results[k].labels[1] IN
                    /\ r.width = encoded[2]
                    /\ r.height = encoded[1]
                    /\ r.segmentationmask.pixels = r.width * r.height

\* A call has inserted the rows of two masks per image, whose predictions
\* carry width and height keys that differ from the shape of the array.
C26_Witness ==
    \E w \in Workers :
        /\ Chunked(task[w]) /\ task[w].predType = "segmentationMasks"
        /\ task[w].pc = "done"
        /\ \E r \in RowsOfChunk(task[w], 1) :
              /\ r.n = 2
              /\ task[w].results[1].width # r.width
              /\ task[w].results[1].height # r.height

(***************************************************************************)
(* C25: a failure of a store query of an operation (the settings lookup of  *)
(* the library names in the commit of train and update, the prediction-type *)
(* lookup of inference and the new-class check of update included) ends     *)
(* the operation with a raised, stage-tagged error and no commit of a       *)
(* model state; no failure is swallowed.                                    *)
(***************************************************************************)
StoreFaults == {"settings", "predtype", "query", "state", "meta",
                "insert", "delete", "upsert"}

\* A worker whose operation has met a failing store query is in the raised
\* state with a stage tag.
C25_Raised ==
    \A w \in Workers :
        task[w].fault \in StoreFaults =>
            task[w].pc = "raised" /\ task[w].error # "untagged"

\* The step in which a store query fails commits no model state.
C25_FailStep ==
    \A w \in Workers :
        (task'[w] # task[w] /\ task'[w].fault \in StoreFaults) => cnnstate' = cnnstate

C25_StoreFailureRaised == []C25_Raised /\ [][C25_FailStep]_vars

C28_Step ==
    \A w \in Workers :
        (Continued(w) /\ task[w].op = "average") =>
            \A r \in cnnstate :
                (r.partial /\ r.model_library # task[w].modelLibrary) => r \in cnnstate'

C30_Step ==
    \A w \in Workers :
        (Continued(w) /\ task[w].op \in {"train", "update"}
            /\ task'[w].pc = "done" /\ task'[w].inserted # {}) =>
                \A ld \in LoadModelState(task[w].modelLibrary)' :
                    {ld[2]} = task'[w].inserted

C30_CommittedUnderOwnLibrary == [][C30_Step]_vars

(***************************************************************************)
(* C31: updateForNewClasses is idempotent between label-class changes.      *)
(* When a call has committed an updated state for a library, a call for     *)
(* that library that follows with no label class created and no other       *)
(* state committed in between does not call update_model and commits        *)
(* nothing.                                                                 *)
(***************************************************************************)
\* Call t is a successful update for lib whose commit is the last commit of
\* the project, and no label class was created since.
LastCommitIsUpdate(t, lib) ==
    /\ t.op = "update" /\ t.pc = "done" /\ t.modelLibrary = lib
    /\ t.inserted = {nextId - 1}
    /\ \A c \in labelclass : \A r \in cnnstate :
          r.id = nextId - 1 => c.timecreated < r.timecreated

C31_Step ==
    \A w \in Workers :
        (/\ UpdateStarts(w)
         /\ \E v \in Workers : LastCommitIsUpdate(task[v], task'[w].modelLibrary))
            => FastPath(w)

C31_UpdateIdempotent == [][C31_Step]_vars

(***************************************************************************)
(* C32: after BoundingBoxDataset has parsed its label classes the           *)
(* class-to-index map is injective and the index-to-class map is its exact  *)
(* inverse, classdef_inv[classdef[k]] = k for every label class k, also     *)
(* when some label classes carry a predefined index and others do not.      *)
(***************************************************************************)
C32_InverseMaps ==
    \A w \in Workers :
        task[w].op = "dataset" =>
            /\ Keys(task[w].classdef) = {c.key : c \in Range(task[w].labelClasses)}
            /\ \A k, l \in Keys(task[w].classdef) :
                  Get(task[w].classdef, k) = Get(task[w].classdef, l) => k = l
            /\ \A k \in Keys(task[w].classdef) :
                  Get(task[w].classdef_inv, Get(task[w].classdef, k)) = k

====
